---- MODULE Spec2Model ----
(***************************************************************************)
(* Model of the DTEK shutdown monitor bot (bot.py, check.py,               *)
(* dtek_client.py): the JSON state file, the periodic monitor_job and the  *)
(* /set and /stop command handlers, interleaved at their await points.     *)
(*                                                                         *)
(* Python strings are sequences of one-character strings; a fixed literal  *)
(* prefix such as "updateTimestamp:" is one element.  JSON values are      *)
(* tagged records [t, v].                                                  *)
(***************************************************************************)
EXTENDS Integers, Sequences, FiniteSets, TLC

\* ------------------------------------------------------------------ bounds
MaxCycles == 2
MaxCommands == 2

\* ------------------------------------------------------------- Python strings
EmptyStr == <<>>
IsSpace(c) == c = " "

RECURSIVE LStrip(_)
LStrip(s) == IF s # <<>> /\ IsSpace(Head(s)) THEN LStrip(Tail(s)) ELSE s

RECURSIVE RStrip(_)
RStrip(s) ==
  IF s # <<>> /\ IsSpace(s[Len(s)]) THEN RStrip(SubSeq(s, 1, Len(s) - 1)) ELSE s

\* str.strip()
Strip(s) == RStrip(LStrip(s))

\* --------------------------------------------------------------- JSON values
JNull == [t |-> "null", v |-> <<>>]
JStr(s) == [t |-> "str", v |-> s]
JNum(n) == [t |-> "num", v |-> n]
JList(l) == [t |-> "list", v |-> l]
JDict(f) == [t |-> "dict", v |-> f]
EmptyDict == JDict(<<>>)

\* Python truthiness of a JSON value
Truthy(x) ==
  CASE x.t = "null" -> FALSE
    [] x.t = "str" -> x.v # <<>>
    [] x.t = "num" -> x.v # 0
    [] x.t = "list" -> x.v # <<>>
    [] x.t = "dict" -> DOMAIN x.v # {}

\* x or y
PyOr(x, y) == IF Truthy(x) THEN x ELSE y

\* d.get(k) on a dict (None when the key is absent)
DGet(d, k) == IF k \in DOMAIN d.v THEN d.v[k] ELSE JNull

\* ------------------------------------------------------------------- marker
\* (j.get("updateTimestamp") or "")
UtOf(j) == PyOr(DGet(j, "updateTimestamp"), JStr(EmptyStr))
\* j.get("fact") or {}
FactOf(j) == PyOr(DGet(j, "fact"), EmptyDict)
\* (fact.get("update") or fact.get("updateFact") or "")
FuOf(j) ==
  PyOr(PyOr(DGet(FactOf(j), "update"), DGet(FactOf(j), "updateFact")), JStr(EmptyStr))

UnknownMarker == <<"unknown">>

\* _make_update_marker raises AttributeError: .strip() on a value that is not a
\* str, or .get on a fact that is not a dict
MarkerRaisesBot(j) ==
  /\ j.t = "dict"
  /\ \/ UtOf(j).t # "str"
     \/ /\ Strip(UtOf(j).v) = <<>>
        /\ \/ FactOf(j).t # "dict"
           \/ FuOf(j).t # "str"

\* Mutants of _make_update_marker: the timestamp marker shows whether there is
\* a fact field; a blank fallback is kept as a marker
MarkerWithFallback(j) ==
  IF j.t = "dict"
  THEN IF Strip(UtOf(j).v) # <<>>
       THEN <<"updateTimestamp:">> \o Strip(UtOf(j).v)
              \o (IF "fact" \in DOMAIN j.v THEN <<"+">> ELSE <<>>)
       ELSE IF Strip(FuOf(j).v) # <<>>
            THEN <<"fact.update:">> \o Strip(FuOf(j).v)
            ELSE UnknownMarker
  ELSE UnknownMarker
MarkerRawFallback(j) ==
  IF j.t = "dict"
  THEN IF Strip(UtOf(j).v) # <<>>
       THEN <<"updateTimestamp:">> \o Strip(UtOf(j).v)
       ELSE IF FuOf(j).v # <<>>
            THEN <<"fact.update:">> \o FuOf(j).v
            ELSE UnknownMarker
  ELSE UnknownMarker

\* bot.py / check.py _make_update_marker, for an input on which it returns
_make_update_marker(j) ==
  IF j.t = "dict"
  THEN IF Strip(UtOf(j).v) # <<>>
       THEN <<"updateTimestamp:">> \o Strip(UtOf(j).v)
       ELSE IF Strip(FuOf(j).v) # <<>>
            THEN <<"fact.update:">> \o Strip(FuOf(j).v)
            ELSE UnknownMarker
  ELSE UnknownMarker

\* dtek_client.py make_update_marker: the same derivation without the
\* isinstance test, so j.get raises on a value that is not a dict
MarkerRaisesClient(j) == j.t # "dict" \/ MarkerRaisesBot(j)
make_update_marker(j) == _make_update_marker(j)

\* ------------------------------------------------------------ house numbers
MaxHouseLen == 16
IsDigit(c) == c \in {"0", "1", "2", "3", "4", "5", "6", "7", "8", "9"}

\* check.py _norm_house
_norm_house(s) == Strip(s)

\* check.py _valid_house
_valid_house(h) ==
  /\ _norm_house(h) # <<>>
  /\ \E i \in DOMAIN _norm_house(h) : IsDigit(_norm_house(h)[i])
  /\ Len(_norm_house(h)) <= MaxHouseLen

\* ------------------------------------------------------------ the state file
\* state["users"]: an insertion-ordered dict, a sequence of <<chat_id, cfg>>
Users == {1, 2}
Streets == {<<"a">>}
Houses == {<<"7">>}

EmptyCfg ==
  [street |-> EmptyStr, street_ui |-> EmptyStr, house |-> EmptyStr,
   last_marker |-> EmptyStr, last_updateTimestamp |-> EmptyStr,
   last_error |-> EmptyStr]

Keys(users) == {users[i][1] : i \in DOMAIN users}
IndexOf(users, id) == CHOOSE i \in DOMAIN users : users[i][1] = id

\* _get_user_cfg
_get_user_cfg(users, id) ==
  IF id \in Keys(users) THEN users[IndexOf(users, id)][2] ELSE EmptyCfg

\* _set_user_cfg: an existing key keeps its position, a new key is appended
_set_user_cfg(users, id, cfg) ==
  IF id \in Keys(users)
  THEN [users EXCEPT ![IndexOf(users, id)] = <<id, cfg>>]
  ELSE Append(users, <<id, cfg>>)

\* _del_user_cfg
_del_user_cfg(users, id) == SelectSeq(users, LAMBDA e : e[1] # id)

\* ------------------------------------------------------------ fetch outcomes
\* What one call of fetch_dtek can produce: an exception with its error string
\* f"{type(e).__name__}: {e}", or the parsed JSON body
Errors == {<<"e1">>, <<"e2">>}
P1 == JDict([updateTimestamp |-> JStr(<<"1">>)])
P2 == JDict([updateTimestamp |-> JStr(<<"2", " ">>)])
PNoTs == JDict([result |-> JNum(1)])
PNotDict == JList(<<>>)
Payloads == {P1, P2, PNotDict, JDict([updateTimestamp |-> JNum(5)])}

Failure(e) == [ok |-> FALSE, err |-> e, j |-> JNull]
Success(j) == [ok |-> TRUE, err |-> EmptyStr, j |-> j]

\* ---------------------------------------------------------------- variables
VARIABLES
  file,       \* content of STATE_FILE: the users dict
  jobPc,      \* monitor_job: "idle", "fetch" (awaiting fetch_dtek), "send"
  jobState,   \* monitor_job's state, loaded once at the start of the cycle
  jobIdx,     \* position in list(users.items())
  jobMsg,     \* the send_message call monitor_job is awaiting
  cmdPc,      \* command handler: "idle", "set_fetch" (cmd_set past its first save)
  cmdState,   \* cmd_set's state, loaded once at its start
  cmdUser,    \* chat_id of the command being handled
  cycles,     \* poll cycles started
  commands,   \* commands handled
  failed,     \* users whose fetch failed in the current cycle
  aborted,    \* what ended the current cycle early: "none", "store", "payload", "send", "fetch"
  fetched,    \* users fetched for in the current cycle
  chgCnt,     \* Change Events sent per user in the current cycle
  errCnt,     \* Error Events sent per user in the current cycle
  undelivered, \* users a send_message of the current cycle failed for
  gone,       \* users whose /stop deleted their record, until they register again
  prev,       \* per user, the outcome of the previous poll
  ev,         \* what the last step did
  call,       \* a call of a function or of a dialogue handler: its arguments
              \* and its outcome
  conv        \* check.py: per user, the state of the /set conversation and
              \* user_data[TMP_STREET]

vars ==
  <<file, jobPc, jobState, jobIdx, jobMsg, cmdPc, cmdState, cmdUser, cycles,
    commands, aborted, failed, fetched, chgCnt, errCnt,
    undelivered, gone, prev, ev, call, conv>>

\* no conversation: ConversationHandler.END, no TMP_STREET in user_data
NoConv == [u \in Users |-> [state |-> "END", tmp |-> EmptyStr]]
NoMsg == [to |-> 0, kind |-> "none", body |-> EmptyStr]
\* prev[u]: whether u's subscription was polled since u last registered (seen),
\* whether that poll ran to its end without an exception (valid), what it
\* fetched (res), and whether u's record in the file is still the one that
\* poll left in monitor_job's state (quiet): no command changed it since.  For
\* a poll that an exception ended, quiet says that the file still holds the
\* record of the poll's snapshot.  kept is the last_marker of the snapshot's
\* record that a poll left as it was: one an exception ended, or one whose
\* fetch failed
NoPrev ==
  [seen |-> FALSE, valid |-> FALSE, res |-> Failure(EmptyStr), quiet |-> FALSE,
   kept |-> EmptyStr]
\* ev: the poll step just taken (kind "poll"): the user, what the fetch
\* returned, the snapshot's last_marker and last_error before the step, the
\* user's prev before the step, whether the step wrote the file, which event
\* it sent, and which exception left monitor_job
NoEv ==
  [kind |-> "none", u |-> 0, res |-> Failure(EmptyStr), lastMarker |-> EmptyStr,
   lastError |-> EmptyStr, prevPoll |-> NoPrev, saved |-> FALSE, emit |-> "none",
   raised |-> "none"]

Init ==
  /\ file = <<>>
  /\ jobPc = "idle"
  /\ jobState = <<>>
  /\ jobIdx = 0
  /\ jobMsg = NoMsg
  /\ cmdPc = "idle"
  /\ cmdState = <<>>
  /\ cmdUser = 0
  /\ cycles = 0
  /\ commands = 0
  /\ aborted = "none"
  /\ fetched = {}
  /\ failed = {}
  /\ chgCnt = [u \in Users |-> 0]
  /\ errCnt = [u \in Users |-> 0]
  /\ undelivered = {}
  /\ gone = {}
  /\ prev = [u \in Users |-> NoPrev]
  /\ ev = NoEv
  /\ call = [fn |-> "none"]  \* no function is being exercised
  /\ conv = NoConv

\* ------------------------------------------------------------- monitor_job
\* "if not street or not house: continue", on the stripped values
Active(cfg) == Strip(cfg.street) # <<>> /\ Strip(cfg.house) # <<>>

\* Mutant of NextActive: the loop steps back onto the entry it just handled
NextActiveRepeats(users, i) ==
  LET S == {k \in (IF i > 1 THEN i - 1 ELSE 1)..Len(users) : Active(users[k][2])}
  IN IF S = {} THEN 0 ELSE CHOOSE k \in S : \A m \in S : k <= m

\* The first position at or after i of an entry the loop fetches for; 0 when
\* the loop runs off the end of list(users.items())
NextActive(users, i) ==
  LET S == {k \in i..Len(users) : Active(users[k][2])}
  IN IF S = {} THEN 0 ELSE CHOOSE k \in S : \A m \in S : k <= m

\* Mutants of the two comparisons and of the except clause: a comparison that
\* always or wrongly reports a difference, a fetch failure that is not caught
ErrorChangedAlways(cfg, err) == TRUE
MarkerChangedAlways(marker, last_marker) == TRUE
MarkerChangedInverted(marker, last_marker) == marker = last_marker
MarkerChangedOrUnknown(marker, last_marker) ==
  marker # last_marker \/ marker = UnknownMarker
FetchFailureEscapes == FALSE
\* "if cfg.get("last_error") != err"
ErrorChanged(cfg, err) == cfg.last_error # err

\* "if marker != last_marker"
MarkerChanged(marker, last_marker) == marker # last_marker

\* "except Exception as e" around fetch_dtek: the failure stays in the iteration
FetchFailureCaught == TRUE

\* "if cfg.get("last_error"): cfg["last_error"] = """
ClearError(cfg) ==
  IF cfg.last_error # EmptyStr THEN [cfg EXCEPT !.last_error = EmptyStr] ELSE cfg

\* Mutant of AfterFailure: the fetch for the same entry is tried again
AfterFailureRetry(i) == i
\* "continue" at the end of the except branch: on to the entry after entry i
AfterFailure(i) == i + 1

\* The loop moves on to the next entry it fetches for, or the cycle ends
JobGoOn(i) ==
  /\ jobIdx' = NextActive(jobState', i)
  /\ jobPc' = IF NextActive(jobState', i) = 0 THEN "idle" ELSE "fetch"

\* An exception leaves monitor_job: the cycle ends where it is
JobRaise(cause) ==
  /\ jobPc' = "idle"
  /\ jobIdx' = 0
  /\ aborted' = cause

\* prev[u] after a poll of u that ran to its end, and after one that raised
Polled(u, res) ==
  [prev EXCEPT ![u] =
     [seen |-> TRUE, valid |-> TRUE, res |-> res,
      quiet |-> /\ u \in Keys(file')
                /\ _get_user_cfg(file', u) = _get_user_cfg(jobState', u),
      kept |-> IF res.ok THEN EmptyStr
               ELSE Strip(_get_user_cfg(jobState', u).last_marker)]]
PollRaised(u, res) ==
  [prev EXCEPT ![u] =
     [seen |-> TRUE, valid |-> FALSE, res |-> res,
      quiet |-> /\ u \in Keys(file)
                /\ _get_user_cfg(file, u) = _get_user_cfg(jobState, u),
      kept |-> Strip(_get_user_cfg(jobState, u).last_marker)]]

PollEv(u, cfg, res, saved, emit, raised) ==
  [kind |-> "poll", u |-> u, res |-> res, lastMarker |-> Strip(cfg.last_marker),
   lastError |-> cfg.last_error, prevPoll |-> prev[u], saved |-> saved,
   emit |-> emit, raised |-> raised]

\* Mutant of JobStart: the state of the previous cycle is kept in memory and
\* the file is read only when there is none
JobStartKeepsState ==
  /\ jobPc = "idle"
  /\ cycles < MaxCycles
  /\ UNCHANGED <<call, conv>>
  /\ cycles' = cycles + 1
  /\ jobState' = IF jobState # <<>> THEN jobState ELSE file
  /\ JobGoOn(1)
  /\ jobMsg' = NoMsg
  /\ aborted' = "none"
  /\ fetched' = {}
  /\ failed' = {}
  /\ chgCnt' = [u \in Users |-> 0]
  /\ errCnt' = [u \in Users |-> 0]
  /\ undelivered' = {}
  /\ ev' = NoEv
  /\ UNCHANGED <<file, cmdPc, cmdState, cmdUser, commands, gone, prev>>

\* The cycle starts: load the state once, skip to the first active entry
JobStart ==
  /\ jobPc = "idle"
  /\ cycles < MaxCycles
  /\ UNCHANGED <<call, conv>>
  /\ cycles' = cycles + 1
  /\ jobState' = file
  /\ JobGoOn(1)
  /\ jobMsg' = NoMsg
  /\ aborted' = "none"
  /\ fetched' = {}
  /\ failed' = {}
  /\ chgCnt' = [u \in Users |-> 0]
  /\ errCnt' = [u \in Users |-> 0]
  /\ undelivered' = {}
  /\ ev' = NoEv
  /\ UNCHANGED <<file, cmdPc, cmdState, cmdUser, commands, gone, prev>>

\* fetch_dtek raised: the except branch of the iteration
JobFetchFailed(err, saveOk) ==
  LET u == jobState[jobIdx][1]
      cfg == jobState[jobIdx][2]
      cfg1 == [cfg EXCEPT !.last_error = err]
      res == Failure(err)
  IN
  /\ jobPc = "fetch"
  /\ UNCHANGED <<call, conv>>
  /\ fetched' = fetched \cup {u}
  /\ failed' = failed \cup {u}
  /\ UNCHANGED <<cmdPc, cmdState, cmdUser, cycles, commands, chgCnt, undelivered, gone>>
  /\ IF ~FetchFailureCaught
     THEN /\ JobRaise("fetch")
          /\ ev' = PollEv(u, cfg, res, FALSE, "none", "fetch")
          /\ prev' = PollRaised(u, res)
          /\ UNCHANGED <<file, jobState, jobMsg, errCnt>>
     ELSE IF ErrorChanged(cfg, err)
     THEN IF saveOk
          THEN /\ jobState' = _set_user_cfg(jobState, u, cfg1)
               /\ file' = jobState'
               /\ jobPc' = "send"
               /\ jobMsg' = [to |-> u, kind |-> "error", body |-> err]
               /\ errCnt' = [errCnt EXCEPT ![u] = @ + 1]
               /\ ev' = PollEv(u, cfg, res, TRUE, "error", "none")
               /\ prev' = Polled(u, res)
               /\ UNCHANGED <<jobIdx, aborted>>
          ELSE \* _save_state raised: the assignment stays in memory only
               /\ JobRaise("store")
               /\ jobState' = _set_user_cfg(jobState, u, cfg1)
               /\ ev' = PollEv(u, cfg, res, FALSE, "none", "store")
               /\ prev' = PollRaised(u, res)
               /\ UNCHANGED <<file, jobMsg, errCnt>>
     ELSE /\ saveOk
          /\ UNCHANGED <<file, jobState, jobMsg, errCnt, aborted>>
          /\ JobGoOn(AfterFailure(jobIdx))
          /\ ev' = PollEv(u, cfg, res, FALSE, "none", "none")
          /\ prev' = Polled(u, res)

\* fetch_dtek returned j: marker, comparison, save, Change Event
JobFetchReturned(j, saveOk) ==
  LET u == jobState[jobIdx][1]
      cfg == jobState[jobIdx][2]
      last_marker == Strip(cfg.last_marker)
      res == Success(j)
      marker == _make_update_marker(j)
      cfg1 == ClearError(cfg)
      cfg2 == [cfg1 EXCEPT !.last_marker = marker,
                           !.last_updateTimestamp = UtOf(j).v]
  IN
  /\ jobPc = "fetch"
  /\ UNCHANGED <<call, conv>>
  /\ fetched' = fetched \cup {u}
  /\ UNCHANGED <<cmdPc, cmdState, cmdUser, cycles, commands, errCnt, failed,
                 undelivered, gone>>
  /\ IF MarkerRaisesBot(j) \/ (MarkerChanged(marker, last_marker) /\ j.t # "dict")
     THEN \* AttributeError in _make_update_marker or in j.get("updateTimestamp")
          \* (the second after cfg["last_marker"] = marker was assigned)
          /\ saveOk
          /\ JobRaise("payload")
          /\ jobState' = IF MarkerRaisesBot(j) THEN jobState
                          ELSE _set_user_cfg(jobState, u,
                                             [cfg1 EXCEPT !.last_marker = marker])
          /\ ev' = PollEv(u, cfg, res, FALSE, "none", "payload")
          /\ prev' = PollRaised(u, res)
          /\ UNCHANGED <<file, jobMsg, chgCnt>>
     ELSE IF ~saveOk
     THEN \* _save_state raised: the assignments to cfg stay in memory only
          /\ JobRaise("store")
          /\ jobState' = _set_user_cfg(jobState, u,
                                        IF MarkerChanged(marker, last_marker)
                                        THEN cfg2 ELSE cfg1)
          /\ ev' = PollEv(u, cfg, res, FALSE, "none", "store")
          /\ prev' = PollRaised(u, res)
          /\ UNCHANGED <<file, jobMsg, chgCnt>>
     ELSE IF MarkerChanged(marker, last_marker)
     THEN /\ jobState' = _set_user_cfg(jobState, u, cfg2)
          /\ file' = jobState'
          /\ jobPc' = "send"
          /\ jobMsg' = [to |-> u, kind |-> "change", body |-> marker]
          /\ chgCnt' = [chgCnt EXCEPT ![u] = @ + 1]
          /\ ev' = PollEv(u, cfg, res, TRUE, "change", "none")
          /\ prev' = Polled(u, res)
          /\ UNCHANGED <<jobIdx, aborted>>
     ELSE /\ jobState' = _set_user_cfg(jobState, u, cfg1)
          /\ file' = jobState'
          /\ JobGoOn(jobIdx + 1)
          /\ ev' = PollEv(u, cfg, res, TRUE, "none", "none")
          /\ prev' = Polled(u, res)
          /\ UNCHANGED <<jobMsg, chgCnt, aborted>>

\* "await context.bot.send_message(...)" returns, or raises out of monitor_job
JobSendReturned(ok) ==
  /\ jobPc = "send"
  /\ UNCHANGED <<call, conv>>
  /\ jobMsg' = NoMsg
  /\ jobState' = jobState
  /\ IF ok
     THEN JobGoOn(jobIdx + 1) /\ UNCHANGED <<aborted, undelivered>>
     ELSE JobRaise("send") /\ undelivered' = undelivered \cup {jobMsg.to}
  /\ ev' = NoEv
  /\ UNCHANGED <<file, cmdPc, cmdState, cmdUser, cycles, commands, failed,
                 fetched, chgCnt, errCnt, gone, prev>>

\* ---------------------------------------------------------------- commands
\* The application handles one update at a time; a handler and monitor_job
\* interleave at their awaits.

\* prev after a handler of user u wrote the file: u's history starts over, and
\* any other user whose stored record the write changed is no longer quiet
PrevAfterCommand(u, newFile) ==
  [v \in Users |->
     IF v = u THEN NoPrev
     ELSE [prev[v] EXCEPT !.quiet =
             /\ @
             /\ (v \in Keys(newFile)) = (v \in Keys(file))
             /\ _get_user_cfg(newFile, v) = _get_user_cfg(file, v)]]

\* Mutant of ResetCfg: the address is replaced, the monitoring state is kept
ResetCfgKeepsMarker(cfg, street, house) ==
  [cfg EXCEPT !.street = street, !.street_ui = street, !.house = house]

\* cmd_set's six assignments to cfg: the address, and the monitoring state reset
ResetCfg(cfg, street, house) ==
  [cfg EXCEPT !.street = street, !.street_ui = street, !.house = house,
              !.last_marker = EmptyStr,
              !.last_updateTimestamp = EmptyStr,
              !.last_error = EmptyStr]

\* The registration up to its first await, as cmd_set and check.py's set_house
\* both have it: load, reset the record, save.  "if not street or not house":
\* the usage reply, nothing is stored; street and house are what
\* _parse_set_args returned, None being the empty string.
CmdSetSave(u, street, house, saveOk) ==
  LET cfg == _get_user_cfg(file, u)
      cfg1 == ResetCfg(cfg, street, house)
      st1 == _set_user_cfg(file, u, cfg1)
  IN
  /\ cmdPc = "idle"
  /\ commands < MaxCommands
  /\ UNCHANGED call
  /\ commands' = commands + 1
  /\ IF street # EmptyStr /\ house # EmptyStr /\ saveOk
     THEN /\ file' = st1
          /\ cmdState' = st1
          /\ cmdUser' = u
          /\ cmdPc' = "set_fetch"
          /\ prev' = PrevAfterCommand(u, st1)
          /\ gone' = gone \ {u}
     ELSE UNCHANGED <<file, cmdState, cmdUser, cmdPc, prev, gone>>
  /\ ev' = NoEv
  /\ UNCHANGED <<jobPc, jobState, jobIdx, jobMsg, cycles, aborted, failed,
                 fetched, chgCnt, errCnt, undelivered>>

\* cmd_set up to its first await: parse, then the registration; bot.py has no
\* conversation
CmdSetStart(u, street, house, saveOk) ==
  /\ CmdSetSave(u, street, house, saveOk)
  /\ UNCHANGED conv

\* The conversation of u is over
ConvEnd(u) == [conv EXCEPT ![u].state = "END"]

\* cmd_set: one of its reply_text awaits outside the try raised, or fetch_dtek
\* raised and the except branch replied: no second save.  In check.py the
\* handler then returns END, unless a reply raised and the conversation stays
\* where it was.
CmdSetFetchFailed ==
  /\ cmdPc = "set_fetch"
  /\ cmdPc' = "idle"
  /\ UNCHANGED call
  /\ conv' \in {conv, ConvEnd(cmdUser)}
  /\ cmdState' = <<>>
  /\ cmdUser' = 0
  /\ ev' = NoEv
  /\ UNCHANGED <<file, jobPc, jobState, jobIdx, jobMsg, cycles, commands,
                 aborted, failed, fetched, chgCnt, errCnt, undelivered, gone, prev>>

\* cmd_set: the confirmation fetch returned j; marker, second save of the
\* state loaded at the start, reply.  Every exception is caught by the try.
CmdSetFetchReturned(j, saveOk) ==
  LET u == cmdUser
      cfg == _get_user_cfg(cmdState, u)
      cfg2 == [cfg EXCEPT !.last_marker = _make_update_marker(j),
                          !.last_updateTimestamp = UtOf(j).v]
      st2 == _set_user_cfg(cmdState, u, cfg2)
      wrote == ~MarkerRaisesBot(j) /\ j.t = "dict" /\ saveOk
  IN
  /\ cmdPc = "set_fetch"
  /\ cmdPc' = "idle"
  /\ UNCHANGED call
  /\ conv' = ConvEnd(cmdUser)
  /\ cmdState' = <<>>
  /\ cmdUser' = 0
  /\ IF wrote
     THEN file' = st2 /\ prev' = PrevAfterCommand(u, st2)
     ELSE UNCHANGED <<file, prev>>
  /\ ev' = NoEv
  /\ UNCHANGED <<jobPc, jobState, jobIdx, jobMsg, cycles, commands, aborted,
                 failed, fetched, chgCnt, errCnt, undelivered, gone>>

\* cmd_stop: load, delete, save, with no await in between
CmdStop(u, saveOk) ==
  LET st == _del_user_cfg(file, u)
      wrote == u \in Keys(file) /\ saveOk
  IN
  /\ cmdPc = "idle"
  /\ commands < MaxCommands
  /\ UNCHANGED <<call, conv>>
  /\ commands' = commands + 1
  /\ IF wrote
     THEN file' = st /\ prev' = PrevAfterCommand(u, st) /\ gone' = gone \cup {u}
     ELSE UNCHANGED <<file, prev, gone>>
  /\ ev' = NoEv
  /\ UNCHANGED <<jobPc, jobState, jobIdx, jobMsg, cmdPc, cmdState, cmdUser,
                 cycles, aborted, failed, fetched, chgCnt, errCnt, undelivered>>

\* ------------------------------------------------------- browser sessions
\* fetch_dtek launches a browser when it is called and the browser is gone
\* when the call returns or raises, so the open sessions are the calls of
\* fetch_dtek that are being awaited.

\* Mutant of JobFetching: the fetches of all remaining entries are started
\* together
JobFetchingAll(users, i, pc) ==
  IF pc = "fetch" THEN {users[k][1] : k \in {m \in i..Len(users) : Active(users[m][2])}}
  ELSE {}

\* The subscribers monitor_job is awaiting fetch_dtek for: the loop awaits the
\* call for entry i before it goes on to the next entry
JobFetching(users, i, pc) == IF pc = "fetch" THEN {users[i][1]} ELSE {}

\* The subscribers a command handler is awaiting fetch_dtek for: the
\* confirmation fetch of cmd_set
CmdFetching(u, pc) == IF pc = "set_fetch" THEN {u} ELSE {}

\* The number of open browser sessions
Sessions ==
  Cardinality(JobFetching(jobState, jobIdx, jobPc)) + Cardinality(CmdFetching(cmdUser, cmdPc))

\* ------------------------------------------------------------ specification
Next ==
  \/ JobStart
  \/ \E e \in Errors, saveOk \in BOOLEAN : JobFetchFailed(e, saveOk)
  \/ \E j \in Payloads, saveOk \in BOOLEAN : JobFetchReturned(j, saveOk)
  \/ \E ok \in BOOLEAN : JobSendReturned(ok)
  \/ \E u \in Users, s \in Streets, h \in Houses, saveOk \in BOOLEAN :
       CmdSetStart(u, s, h, saveOk)
  \/ CmdSetFetchFailed
  \/ \E j \in Payloads, saveOk \in BOOLEAN : CmdSetFetchReturned(j, saveOk)
  \/ \E u \in Users, saveOk \in BOOLEAN : CmdStop(u, saveOk)

Spec == Init /\ [][Next]_vars

\* The same program with fetches that return payloads without any update
\* field, for which the marker is the "unknown" sentinel
UnknownPayloads == {P1, PNoTs, PNotDict}

NextUnknown ==
  \/ JobStart
  \/ \E e \in {<<"e1">>}, saveOk \in BOOLEAN : JobFetchFailed(e, saveOk)
  \/ \E j \in UnknownPayloads, saveOk \in BOOLEAN : JobFetchReturned(j, saveOk)
  \/ \E ok \in BOOLEAN : JobSendReturned(ok)
  \/ \E u \in Users, s \in Streets, h \in Houses, saveOk \in BOOLEAN :
       CmdSetStart(u, s, h, saveOk)
  \/ CmdSetFetchFailed
  \/ \E j \in UnknownPayloads, saveOk \in BOOLEAN : CmdSetFetchReturned(j, saveOk)
  \/ \E u \in Users, saveOk \in BOOLEAN : CmdStop(u, saveOk)

SpecUnknown == Init /\ [][NextUnknown]_vars

\* The same program with fetches that return one of two objects with different
\* markers or raise one error, every store write succeeding or raising
StorePayloads == {P1, P2}

NextStore ==
  \/ JobStart
  \/ \E e \in {<<"e1">>}, saveOk \in BOOLEAN : JobFetchFailed(e, saveOk)
  \/ \E j \in StorePayloads, saveOk \in BOOLEAN : JobFetchReturned(j, saveOk)
  \/ \E ok \in BOOLEAN : JobSendReturned(ok)
  \/ \E u \in Users, s \in Streets, h \in Houses, saveOk \in BOOLEAN :
       CmdSetStart(u, s, h, saveOk)
  \/ CmdSetFetchFailed
  \/ \E j \in StorePayloads, saveOk \in BOOLEAN : CmdSetFetchReturned(j, saveOk)
  \/ \E u \in Users, saveOk \in BOOLEAN : CmdStop(u, saveOk)

SpecStore == Init /\ [][NextStore]_vars

\* The steps of monitor_job after an await: asyncio resumes the coroutine when
\* the awaited fetch_dtek or send_message has returned or raised
JobResumes ==
  \/ \E e \in {<<"e1">>}, saveOk \in BOOLEAN : JobFetchFailed(e, saveOk)
  \/ \E j \in StorePayloads, saveOk \in BOOLEAN : JobFetchReturned(j, saveOk)
  \/ \E ok \in BOOLEAN : JobSendReturned(ok)

\* SpecStore with every await of monitor_job eventually over
SpecLive == Init /\ [][NextStore]_vars /\ WF_vars(JobResumes)

\* The same program with registrations whose street is blank: _parse_set_args
\* strips white space before the quotes, so /set " " | 7 gives the street " ",
\* which cmd_set stores and monitor_job skips

NextSkip ==
  \/ JobStart
  \/ \E e \in {<<"e1">>}, saveOk \in BOOLEAN : JobFetchFailed(e, saveOk)
  \/ \E j \in StorePayloads, saveOk \in BOOLEAN : JobFetchReturned(j, saveOk)
  \/ \E ok \in BOOLEAN : JobSendReturned(ok)
  \/ \E u \in Users, s \in {<<"a">>, <<" ">>}, h \in Houses, saveOk \in BOOLEAN :
       CmdSetStart(u, s, h, saveOk)
  \/ CmdSetFetchFailed
  \/ \E j \in StorePayloads, saveOk \in BOOLEAN : CmdSetFetchReturned(j, saveOk)
  \/ \E u \in Users, saveOk \in BOOLEAN : CmdStop(u, saveOk)

SpecSkip == Init /\ [][NextSkip]_vars

\* ------------------------------------------------------------ registration
\* The command handlers alone, with house texts of every kind: empty, a
\* number, no digit, digits and letters, and one character too long

\* check.py set_house up to its first await: the house text is normalised and
\* tested, then the record is reset and saved as in cmd_set.  street is the
\* text set_street kept in user_data.
set_house(u, street, text, saveOk) ==
  IF _valid_house(_norm_house(text))
  THEN IF Strip(street) = EmptyStr
       THEN \* "if not street": a reply, END; the conversation stays where
            \* it was when the reply raises
            /\ cmdPc = "idle"
            /\ commands < MaxCommands
            /\ commands' = commands + 1
            /\ ev' = NoEv
            /\ conv' \in {conv, ConvEnd(u)}
            /\ UNCHANGED <<file, jobPc, jobState, jobIdx, jobMsg, cmdPc, cmdState,
                           cmdUser, cycles, aborted, failed, fetched, chgCnt,
                           errCnt, undelivered, gone, prev, call>>
       ELSE \* TMP_STREET is popped after the save
            /\ CmdSetSave(u, Strip(street), _norm_house(text), saveOk)
            /\ conv' = IF saveOk THEN [conv EXCEPT ![u].tmp = EmptyStr] ELSE conv
  ELSE /\ cmdPc = "idle"
       /\ commands < MaxCommands
       /\ commands' = commands + 1
       /\ ev' = NoEv
       /\ UNCHANGED <<file, jobPc, jobState, jobIdx, jobMsg, cmdPc, cmdState,
                      cmdUser, cycles, aborted, failed, fetched, chgCnt, errCnt,
                      undelivered, gone, prev, call, conv>>

HouseTexts ==
  LET LongHouse == [i \in 1..(MaxHouseLen + 1) |-> "1"] IN
  {<<>>, <<"7">>, <<"b">>, <<"1", "2", "b">>, <<" ", "7">>, LongHouse}

NextReg ==
  \/ \E u \in Users, s \in Streets, h \in {Strip(t) : t \in HouseTexts},
        saveOk \in BOOLEAN :
       CmdSetStart(u, s, h, saveOk)
  \/ \E u \in Users, s \in Streets, t \in HouseTexts, saveOk \in BOOLEAN :
       set_house(u, s, t, saveOk)
  \/ CmdSetFetchFailed
  \/ \E j \in {P1, PNotDict}, saveOk \in BOOLEAN : CmdSetFetchReturned(j, saveOk)
  \/ \E u \in Users, saveOk \in BOOLEAN : CmdStop(u, saveOk)

SpecReg == Init /\ [][NextReg]_vars

\* ------------------------------------------------------- the /set dialogue
\* check.py's ConversationHandler conv_set: /set enters (and, with
\* allow_reentry, re-enters), a text that is no command goes to the handler of
\* the current state, /cancel is the fallback of both states.  The library
\* handles the updates one after the other and keeps the state of the
\* conversation when a handler raises.

\* " ".join(s.strip().split()) on a text that is already stripped
RECURSIVE JoinSplit(_)
JoinSplit(s) ==
  IF Len(s) < 2 THEN s
  ELSE IF IsSpace(s[1]) /\ IsSpace(s[2]) THEN JoinSplit(Tail(s))
       ELSE <<s[1]>> \o JoinSplit(Tail(s))

_norm_street(s) == JoinSplit(Strip(s))

\* "if len(street) < 3"
MinStreetLen == 3

\* What the handlers of the dialogue that do not reach the store leave alone
DialogVars ==
  <<file, jobPc, jobState, jobIdx, jobMsg, cmdPc, cmdState, cmdUser, cycles,
    commands, aborted, failed, fetched, chgCnt, errCnt, undelivered, gone, prev, ev>>

\* set_entry: TMP_STREET is popped, then the reply; SET_STREET when it returns
set_entry(u, replyOk) ==
  /\ cmdPc = "idle"
  /\ conv' = [conv EXCEPT ![u] = [state |-> IF replyOk THEN "SET_STREET" ELSE @.state,
                                  tmp |-> EmptyStr]]
  /\ call' = [fn |-> "set_entry", u |-> u, replyOk |-> replyOk]
  /\ UNCHANGED DialogVars

\* set_street: a street shorter than 3 characters is refused, any other is kept
\* in TMP_STREET, then the reply; SET_HOUSE when it returns
set_street(u, text, replyOk) ==
  LET street == _norm_street(text) IN
  /\ cmdPc = "idle"
  /\ conv[u].state = "SET_STREET"
  /\ conv' = IF Len(street) < MinStreetLen THEN conv
             ELSE [conv EXCEPT ![u] = [state |-> IF replyOk THEN "SET_HOUSE" ELSE @.state,
                                       tmp |-> street]]
  /\ call' = [fn |-> "set_street", u |-> u, text |-> text, replyOk |-> replyOk]
  /\ UNCHANGED DialogVars

\* SET_HOUSE: the text goes to set_house, with the street of user_data
conv_set_house(u, text, saveOk) ==
  /\ conv[u].state = "SET_HOUSE"
  /\ set_house(u, conv[u].tmp, text, saveOk)

\* set_cancel: the reply, then TMP_STREET is popped; END when it returns
set_cancel(u, replyOk) ==
  /\ cmdPc = "idle"
  /\ conv[u].state # "END"
  /\ conv' = IF replyOk THEN [conv EXCEPT ![u] = [state |-> "END", tmp |-> EmptyStr]]
             ELSE conv
  /\ call' = [fn |-> "set_cancel", u |-> u, replyOk |-> replyOk]
  /\ UNCHANGED DialogVars

\* Street texts: too short, long enough, too short once stripped, and one
\* whose inner white space is collapsed
StreetTexts == {<<"a">>, <<"a", "b", "c">>, <<" ", "a", "b", " ">>, <<"a", " ", " ", "b">>}
DialogHouseTexts == {<<"7">>, <<"b">>, <<" ", "7">>}

NextDialog ==
  \/ \E u \in Users, replyOk \in BOOLEAN : set_entry(u, replyOk)
  \/ \E u \in Users, t \in StreetTexts, replyOk \in BOOLEAN : set_street(u, t, replyOk)
  \/ \E u \in Users, t \in DialogHouseTexts, saveOk \in BOOLEAN : conv_set_house(u, t, saveOk)
  \/ \E u \in Users, replyOk \in BOOLEAN : set_cancel(u, replyOk)
  \/ CmdSetFetchFailed
  \/ \E j \in {P1, PNotDict}, saveOk \in BOOLEAN : CmdSetFetchReturned(j, saveOk)
  \/ \E u \in Users, saveOk \in BOOLEAN : CmdStop(u, saveOk)

SpecDialog == Init /\ [][NextDialog]_vars

\* ------------------------------------------------------ the pure functions
\* A second specification exercises the functions that derive the marker and
\* build the notification text: Init draws a payload, one action per function
\* applies it.

\* A key that the JSON object does not have
Absent == [t |-> "absent", v |-> <<>>]
Field(k, x) == IF x = Absent THEN <<>> ELSE (k :> x)

\* Payloads for the marker: every combination of the update fields, with and
\* without another key; and two bodies that are not objects
MarkerPayloads ==
  LET TsValues ==
        {Absent, JNull, JStr(<<>>), JStr(<<" ">>), JStr(<<"1">>), JStr(<<"1", " ">>),
         JStr(<<"2">>), JNum(5)}
      FactValues ==
        {Absent, JNull,
         JDict([update |-> JStr(<<"x">>)]),
         JDict([update |-> JStr(<<" ">>)]),
         JDict([update |-> JStr(<<"x", " ">>)]),
         JDict([updateFact |-> JStr(<<"x">>)]),
         JDict([update |-> JStr(<<"y">>), updateFact |-> JStr(<<"x">>)]),
         JDict([update |-> JNum(7)]),
         JList(<<JNum(1)>>)}
      ResultValues == {Absent, JNum(1)}
  IN
  {JDict(Field("updateTimestamp", ts) @@ Field("fact", f) @@ Field("result", r)) :
     ts \in TsValues, f \in FactValues, r \in ResultValues}
  \cup {JList(<<>>), JNull}

programVars ==
  <<file, jobPc, jobState, jobIdx, jobMsg, cmdPc, cmdState, cmdUser, cycles,
    commands, aborted, failed, fetched, chgCnt, errCnt, undelivered, gone, prev, ev,
    conv>>

\* get_house_queue ---------------------------------------------------------
Q1 == JStr(<<"Q", "1">>)
Q2 == JStr(<<"Q", "2">>)
QueueHouses == {<<"7">>, <<"8">>}

\* Payloads for the queue.  ItemValues are the values of data[house];
\* DataValues those of the data key: missing, null, empty, one house, or not
\* an object
QueuePayloads ==
  LET ItemValues ==
        {JNull, EmptyDict,
         JDict([sub_type_reason |-> JNull]),
         JDict([sub_type_reason |-> JList(<<>>)]),
         JDict([sub_type_reason |-> JList(<<Q1>>)]),
         JDict([sub_type_reason |-> JList(<<Q2, Q1>>)]),
         JDict([sub_type_reason |-> Q1]),
         JDict([sub_type_reason |-> JNum(3)]),
         JList(<<Q1>>)}
      DataValues ==
        {Absent, JNull, EmptyDict, JList(<<Q1>>)}
        \cup {JDict(h :> item) : h \in {<<"7">>, <<"9">>}, item \in ItemValues}
  IN
  {JDict(Field("data", d) @@ Field("updateTimestamp", ts)) :
     d \in DataValues, ts \in {Absent, JStr(<<"1">>)}}
  \cup {JList(<<>>)}

\* Mutant of DataOf: j.get("data", {}), which lets a null through
DataOfDefault(j) == IF "data" \in DOMAIN j.v THEN j.v.data ELSE EmptyDict
\* m = j.get("data") or {}
DataOf(j) == PyOr(DGet(j, "data"), EmptyDict)
\* item = m.get(house) or {}
ItemOf(j, house) == PyOr(DGet(DataOf(j), house), EmptyDict)
\* reasons = item.get("sub_type_reason") or []
ReasonsOf(j, house) == PyOr(DGet(ItemOf(j, house), "sub_type_reason"), JList(<<>>))

\* get_house_queue raises: .get on a value that is not a dict, or [0] on a
\* number or a dict
GetHouseQueueRaises(j, house) ==
  \/ j.t # "dict"
  \/ DataOf(j).t # "dict"
  \/ ItemOf(j, house).t # "dict"
  \/ (Truthy(ReasonsOf(j, house)) /\ ReasonsOf(j, house).t \in {"num", "dict"})

\* Mutant of get_house_queue: the last entry of the list
GetHouseQueueLast(j, house) ==
  IF ~Truthy(ReasonsOf(j, house)) THEN JNull
  ELSE IF ReasonsOf(j, house).t = "str" THEN JStr(<<Head(ReasonsOf(j, house).v)>>)
  ELSE ReasonsOf(j, house).v[Len(ReasonsOf(j, house).v)]

\* "return reasons[0] if reasons else None", for an input on which it returns
get_house_queue(j, house) ==
  IF ~Truthy(ReasonsOf(j, house)) THEN JNull
  ELSE IF ReasonsOf(j, house).t = "str" THEN JStr(<<Head(ReasonsOf(j, house).v)>>)
  ELSE ReasonsOf(j, house).v[1]

\* summarize_fact_for_today -------------------------------------------------
HoursPerDay == 24
Digits == <<"0", "1", "2", "3", "4", "5", "6", "7", "8", "9">>

\* str(n) of a natural number
RECURSIVE Str(_)
Str(n) == IF n < 10 THEN <<Digits[n + 1]>> ELSE Str(n \div 10) \o <<Digits[(n % 10) + 1]>>

\* f"{h:02d}?"
SynthSlot(h) == (IF h < 10 THEN <<"0">> ELSE <<>>) \o Str(h) \o <<"?">>

\* str(x) of a JSON value that is a string, a number or null
PyStr(x) ==
  CASE x.t = "str" -> x.v
    [] x.t = "num" -> Str(x.v)
    [] OTHER -> <<"None">>

\* the "—" shown for an hour without a status
Dash == JStr(<<"-">>)
NoFactData == [nodata |-> TRUE]

On == JStr(<<"o", "n">>)
Off == JStr(<<"o", "f", "f">>)
Raw == JStr(<<"z", "z">>)
\* the status the sample day gives to hour h
SampleStatus(h) == IF h = 5 THEN Off ELSE IF h = 7 THEN Raw ELSE On
\* an hours map with the hours in missing left out
SampleHours(missing) ==
  JDict([k \in {Str(h) : h \in (1..HoursPerDay) \ missing} |->
           SampleStatus(CHOOSE h \in 1..HoursPerDay : Str(h) = k)])
PresetValues ==
  {Absent,
   JDict([time_type |-> JDict(On.v :> JStr(<<"p">>) @@ Off.v :> JStr(<<"n", "p">>))]),
   JDict([time_type |-> JDict(On.v :> JStr(<<"p">>) @@ Off.v :> JStr(<<"n", "p">>)),
          time_zone |-> JDict(Str(5) :> JList(<<JStr(<<"4", "-", "5">>), JStr(<<"x">>)>>))])}

FactPayloads ==
  LET MissingSets == {{}, {13}, {1}, {24}, {5, 13}, 1..HoursPerDay, (1..HoursPerDay) \ {5}}
      TodayValues == {Absent, JNum(0), JNum(5), JStr(<<"5">>)}
      DayKeys == {<<"5">>, <<"6">>}
  IN
  {JDict(Field("preset", p) @@
         ("fact" :> JDict(Field("today", t) @@
                          ("data" :> JDict(d :> JDict(Q1.v :> SampleHours(m))))))) :
     p \in PresetValues, t \in TodayValues, d \in DayKeys, m \in MissingSets}
  \cup {JDict(<<>>), JDict([fact |-> JList(<<JNum(1)>>)])}

\* Payloads of the documented shape with keys left out or null, in every
\* combination: updateTimestamp; data, the house's entry, its sub_type_reason;
\* fact, fact.today, fact.data, the day's entry, the queue's entry; preset,
\* time_zone, time_type
SparseValues(x) == {Absent, JNull, x}
SparsePayloads ==
  LET SparseData ==
        SparseValues(EmptyDict)
        \cup {JDict(<<"7">> :> item) :
                item \in {JNull} \cup {JDict(Field("sub_type_reason", r)) :
                                         r \in SparseValues(JList(<<Q1>>))}}
      SparseFactData ==
        SparseValues(EmptyDict)
        \cup {JDict(<<"5">> :> day) :
                day \in {JNull} \cup {JDict(Field(Q1.v, hs)) :
                                        hs \in SparseValues(SampleHours({13}))}}
      SparseFact ==
        {Absent, JNull}
        \cup {JDict(Field("today", t) @@ Field("data", d)) :
                t \in SparseValues(JNum(5)), d \in SparseFactData}
      SparsePreset ==
        {Absent, JNull}
        \cup {JDict(Field("time_zone", tz) @@ Field("time_type", tt)) :
                tz \in {Absent, JNull,
                         JDict(Str(5) :> JList(<<JStr(<<"4", "-", "5">>)>>))},
                tt \in {Absent, JNull, JDict(Off.v :> JStr(<<"n", "p">>))}}
  IN
  {JDict(Field("updateTimestamp", ts) @@ Field("data", d) @@ Field("fact", f)
         @@ Field("preset", p)) :
     ts \in SparseValues(JStr(<<"1">>)), d \in SparseData, f \in SparseFact,
     p \in SparsePreset}

PresetOf(j) == PyOr(DGet(j, "preset"), EmptyDict)
TzOf(j) == PyOr(DGet(PresetOf(j), "time_zone"), EmptyDict)
TimeTypeOf(j) == PyOr(DGet(PresetOf(j), "time_type"), EmptyDict)
TodayOf(j) == DGet(FactOf(j), "today")
FactDataOf(j) == PyOr(DGet(FactOf(j), "data"), EmptyDict)
\* data.get(str(today_ts)) or data.get(today_ts) or {}: the keys of a parsed
\* JSON object are strings, so the second lookup finds a string today_ts only
FactDayOf(j) ==
  PyOr(PyOr(DGet(FactDataOf(j), PyStr(TodayOf(j))),
            IF TodayOf(j).t = "str" THEN DGet(FactDataOf(j), TodayOf(j).v) ELSE JNull),
       EmptyDict)
HoursOf(j, queue) == PyOr(DGet(FactDayOf(j), queue), EmptyDict)

\* summarize_fact_for_today raises: .get on a value that is not a dict
SummarizeRaises(j, queue) ==
  \/ j.t # "dict"
  \/ FactOf(j).t # "dict"
  \/ PresetOf(j).t # "dict"
  \/ TzOf(j).t # "dict"
  \/ TimeTypeOf(j).t # "dict"
  \/ FactDataOf(j).t # "dict"
  \/ FactDayOf(j).t # "dict"
  \/ (Truthy(TodayOf(j)) /\ HoursOf(j, queue).t # "dict")

\* Mutant of CodeAt: after an hour without a status, every later hour shows "—"
CodeAtSticky(hours, h) ==
  IF \A k \in 1..h : Str(k) \in DOMAIN hours.v THEN hours.v[Str(h)] ELSE Dash

\* code = hours.get(key, "—")
CodeAt(hours, h) == IF Str(h) \in DOMAIN hours.v THEN hours.v[Str(h)] ELSE Dash

\* slot = (tz.get(key) or [f"{h:02d}?"])[0]
SlotAt(tz, h) == PyOr(DGet(tz, Str(h)), JList(<<JStr(SynthSlot(h))>>)).v[1]

\* human = time_type.get(code, code)
HumanOf(time_type, code) ==
  IF code.v \in DOMAIN time_type.v THEN time_type.v[code.v] ELSE code

\* One line f"{slot}: {code} ({human})" as its three parts
HourLine(j, queue, h) ==
  [slot |-> SlotAt(TzOf(j), h),
   code |-> CodeAt(HoursOf(j, queue), h),
   human |-> HumanOf(TimeTypeOf(j), CodeAt(HoursOf(j, queue), h))]

\* The function's result: the "no data" text, or the lines of hours 1..24
summarize_fact_for_today(j, queue) ==
  IF ~Truthy(TodayOf(j)) \/ ~Truthy(HoursOf(j, queue))
  THEN NoFactData
  ELSE [h \in 1..HoursPerDay |-> HourLine(j, queue, h)]

\* The calls ---------------------------------------------------------------
\* marker = _make_update_marker(j), as monitor_job and cmd_set call it
Call_make_update_marker ==
  /\ call.fn = "input"
  /\ call.j \in MarkerPayloads \cup SparsePayloads
  /\ call' = [fn |-> "_make_update_marker", j |-> call.j,
               raised |-> MarkerRaisesBot(call.j),
               ret |-> IF MarkerRaisesBot(call.j) THEN EmptyStr
                       ELSE _make_update_marker(call.j)]
  /\ UNCHANGED programVars

\* dtek_client.make_update_marker(j)
Call_make_update_marker_client ==
  /\ call.fn = "input"
  /\ call.j \in MarkerPayloads \cup SparsePayloads
  /\ call' = [fn |-> "make_update_marker", j |-> call.j,
               raised |-> MarkerRaisesClient(call.j),
               ret |-> IF MarkerRaisesClient(call.j) THEN EmptyStr
                       ELSE make_update_marker(call.j)]
  /\ UNCHANGED programVars

Call_get_house_queue(house) ==
  /\ call.fn = "input"
  /\ call.j \in QueuePayloads \cup SparsePayloads
  /\ call' = [fn |-> "get_house_queue", j |-> call.j, house |-> house,
               raised |-> GetHouseQueueRaises(call.j, house),
               ret |-> IF GetHouseQueueRaises(call.j, house) THEN JNull
                       ELSE get_house_queue(call.j, house)]
  /\ UNCHANGED programVars

Call_summarize_fact_for_today(queue) ==
  /\ call.fn = "input"
  /\ call.j \in FactPayloads \cup SparsePayloads
  /\ call' = [fn |-> "summarize_fact_for_today", j |-> call.j, queue |-> queue,
               raised |-> SummarizeRaises(call.j, queue),
               ret |-> IF SummarizeRaises(call.j, queue) THEN NoFactData
                       ELSE summarize_fact_for_today(call.j, queue)]
  /\ UNCHANGED programVars

\* format_house_info and the text of a Change Event -------------------------
\* Payloads of the documented shape: one house with its queue list, today's
\* hours of queue Q1, with and without the result and preset keys (a JSON true
\* is the number 1, false the number 0)
TextPayloads ==
  {JDict(Field("result", r) @@ ("updateTimestamp" :> ts)
         @@ ("data" :> JDict(<<"7">> :> JDict([sub_type_reason |-> JList(rs)])))
         @@ ("fact" :> JDict([today |-> JNum(5),
                               data |-> JDict(<<"5">> :> JDict(Q1.v :> SampleHours({13})))]))
         @@ Field("preset", p)) :
     r \in {Absent, JNum(1), JNum(0)},
     ts \in {JStr(<<"1">>), JStr(<<"1", " ">>)},
     rs \in {<<>>, <<Q1>>},
     p \in PresetValues}

\* format_house_info for a dict j whose data is a dict of dicts: the text as the
\* parts it is built from.  "error" is f"❌ Помилка: {j.get('text', 'unknown')}",
\* "nohouse" the text that names the house and some keys of data, "house" the
\* three lines with the address, the queue codes and the update time.
format_house_info(street_ui, house, j) ==
  IF ~Truthy(DGet(j, "result"))
  THEN [kind |-> "error",
        text |-> IF "text" \in DOMAIN j.v THEN j.v.text ELSE JStr(<<"unknown">>)]
  ELSE IF house \notin DOMAIN DataOf(j).v
  THEN [kind |-> "nohouse", house |-> house]
  ELSE [kind |-> "house", street_ui |-> street_ui, house |-> house,
        reasons |-> IF ReasonsOf(j, house).v = <<>> THEN <<Dash>>
                    ELSE ReasonsOf(j, house).v,
        upd |-> IF Truthy(PyOr(DGet(j, "updateTimestamp"), JStr(EmptyStr)))
                THEN DGet(j, "updateTimestamp") ELSE Dash]

\* monitor_job on a changed marker: the marker it stores and the text it sends,
\* msg = format_house_info(...) and, if the house has a queue, the queue line
\* and summarize_fact_for_today
ChangeText(street_ui, house, j) ==
  [head |-> format_house_info(street_ui, house, j),
   queue |-> get_house_queue(j, house),
   fact |-> IF Truthy(get_house_queue(j, house))
            THEN summarize_fact_for_today(j, get_house_queue(j, house).v)
            ELSE NoFactData]

Call_change_text(street_ui, house) ==
  /\ call.fn = "input"
  /\ call.j \in TextPayloads
  /\ call' = [fn |-> "change_text", j |-> call.j, street_ui |-> street_ui,
               house |-> house, raised |-> FALSE,
               marker |-> _make_update_marker(call.j),
               ret |-> ChangeText(street_ui, house, call.j)]
  /\ UNCHANGED programVars

FnPayloads == MarkerPayloads \cup QueuePayloads \cup FactPayloads \cup TextPayloads

InitFn ==
  /\ file = <<>>
  /\ jobPc = "idle"
  /\ jobState = <<>>
  /\ jobIdx = 0
  /\ jobMsg = NoMsg
  /\ cmdPc = "idle"
  /\ cmdState = <<>>
  /\ cmdUser = 0
  /\ cycles = 0
  /\ commands = 0
  /\ aborted = "none"
  /\ fetched = {}
  /\ failed = {}
  /\ chgCnt = [u \in Users |-> 0]
  /\ errCnt = [u \in Users |-> 0]
  /\ undelivered = {}
  /\ gone = {}
  /\ prev = [u \in Users |-> NoPrev]
  /\ ev = NoEv
  /\ conv = NoConv
  /\ call \in {[fn |-> "input", j |-> j] : j \in FnPayloads}

NextFn ==
  \/ Call_make_update_marker
  \/ Call_make_update_marker_client
  \/ \E house \in QueueHouses : Call_get_house_queue(house)
  \/ \E queue \in {Q1.v, Q2.v} : Call_summarize_fact_for_today(queue)
  \/ \E street \in Streets, house \in QueueHouses : Call_change_text(street, house)

SpecFn == InitFn /\ [][NextFn]_vars

\* The three derivations applied to the payloads with keys left out
InitSparse ==
  /\ file = <<>>
  /\ jobPc = "idle"
  /\ jobState = <<>>
  /\ jobIdx = 0
  /\ jobMsg = NoMsg
  /\ cmdPc = "idle"
  /\ cmdState = <<>>
  /\ cmdUser = 0
  /\ cycles = 0
  /\ commands = 0
  /\ aborted = "none"
  /\ fetched = {}
  /\ failed = {}
  /\ chgCnt = [u \in Users |-> 0]
  /\ errCnt = [u \in Users |-> 0]
  /\ undelivered = {}
  /\ gone = {}
  /\ prev = [u \in Users |-> NoPrev]
  /\ ev = NoEv
  /\ conv = NoConv
  /\ call \in {[fn |-> "input", j |-> j] : j \in SparsePayloads}

NextSparse ==
  \/ Call_make_update_marker
  \/ Call_make_update_marker_client
  \/ \E house \in QueueHouses : Call_get_house_queue(house)
  \/ \E queue \in {Q1.v, Q2.v} : Call_summarize_fact_for_today(queue)

SpecSparse == InitSparse /\ [][NextSparse]_vars

\* ------------------------------------------------- _save_state, step by step
\* A third specification follows one call of _save_state through its file
\* system calls, with an exception or the end of the process at any of them.
\* A file on disk: whether it exists, and its text as a sequence of tokens
NoFile == [exists |-> FALSE, text |-> <<>>]
OnDisk(text) == [exists |-> TRUE, text |-> text]

Tok(kind, e) == [tok |-> kind, e |-> e]

\* json.dump(state, f): the opening brace, one token per user, the closing brace
Dump(users) ==
  <<Tok("open", <<>>)>> \o [i \in DOMAIN users |-> Tok("entry", users[i])]
    \o <<Tok("close", <<>>)>>

\* json.load accepts the text: a complete document
Parses(text) ==
  /\ Len(text) >= 2
  /\ text[1].tok = "open"
  /\ text[Len(text)].tok = "close"
  /\ \A i \in 2..(Len(text) - 1) : text[i].tok = "entry"

\* _load_state: {} when the file is missing or json.load raises
_load_state(f) ==
  IF f.exists /\ Parses(f.text)
  THEN [i \in 1..(Len(f.text) - 2) |-> f.text[i + 1].e]
  ELSE <<>>

\* Mutant of SaveTarget: json.dump writes into STATE_FILE itself
SaveTargetStateFile == "main"
\* tmp = STATE_FILE + ".tmp": the file the with block opens and writes
SaveTarget == "tmp"

\* States to save: one or two users, with and without a stored marker
SavedCfg(marker) ==
  [ResetCfg(EmptyCfg, <<"a">>, <<"7">>) EXCEPT !.last_marker = marker]
SaveStates ==
  {<<>>,
   <<<<1, SavedCfg(EmptyStr)>>>>,
   <<<<1, SavedCfg(<<"updateTimestamp:", "1">>)>>>>,
   <<<<1, SavedCfg(<<"updateTimestamp:", "1">>)>>, <<2, SavedCfg(EmptyStr)>>>>,
   <<<<2, SavedCfg(<<"updateTimestamp:", "2">>)>>, <<1, SavedCfg(EmptyStr)>>>>}

\* What a call finds on disk: no STATE_FILE or a saved one, and no tmp file or
\* the partial one a save that did not finish left behind
InitSave ==
  /\ jobPc = "idle"
  /\ jobState = <<>>
  /\ jobIdx = 0
  /\ jobMsg = NoMsg
  /\ cmdPc = "idle"
  /\ cmdState = <<>>
  /\ cmdUser = 0
  /\ cycles = 0
  /\ commands = 0
  /\ aborted = "none"
  /\ fetched = {}
  /\ failed = {}
  /\ chgCnt = [u \in Users |-> 0]
  /\ errCnt = [u \in Users |-> 0]
  /\ undelivered = {}
  /\ gone = {}
  /\ prev = [u \in Users |-> NoPrev]
  /\ ev = NoEv
  /\ conv = NoConv
  /\ \E old \in {NoFile} \cup {OnDisk(Dump(st)) : st \in SaveStates},
        tmp \in {NoFile, OnDisk(<<Tok("open", <<>>)>>)},
        st \in SaveStates :
       /\ call = [fn |-> "_save_state", pc |-> "open", state |-> st, old |-> old,
                   disk |-> [main |-> old, tmp |-> tmp]]
       /\ file = _load_state(old)

\* The step leaves the disk as d; file is what _load_state reads from it
SaveStep(pc, d) ==
  /\ call' = [call EXCEPT !.pc = pc, !.disk = d]
  /\ file' = _load_state(d.main)
  /\ UNCHANGED <<jobPc, jobState, jobIdx, jobMsg, cmdPc, cmdState, cmdUser, cycles,
                 commands, aborted, failed, fetched, chgCnt, errCnt, undelivered,
                 gone, prev, ev, conv>>

\* open(tmp, "w"): the file is created, or truncated if it exists
SaveOpen ==
  /\ call.fn = "_save_state" /\ call.pc = "open"
  /\ SaveStep("dump", [call.disk EXCEPT ![SaveTarget] = OnDisk(<<>>)])

\* json.dump writes the next piece of the text
SaveWrite ==
  /\ call.fn = "_save_state" /\ call.pc = "dump"
  /\ Len(call.disk[SaveTarget].text) < Len(Dump(call.state))
  /\ SaveStep("dump",
              [call.disk EXCEPT ![SaveTarget] =
                 OnDisk(Append(@.text, Dump(call.state)[Len(@.text) + 1]))])

\* the with block ends: the file is complete and closed
SaveClose ==
  /\ call.fn = "_save_state" /\ call.pc = "dump"
  /\ Len(call.disk[SaveTarget].text) = Len(Dump(call.state))
  /\ SaveStep("replace", call.disk)

\* os.replace(tmp, STATE_FILE): the name STATE_FILE now refers to tmp's file;
\* FileNotFoundError when there is no tmp file
SaveReplace ==
  /\ call.fn = "_save_state" /\ call.pc = "replace"
  /\ IF call.disk.tmp.exists
     THEN SaveStep("done", [main |-> call.disk.tmp, tmp |-> NoFile])
     ELSE SaveStep("raised", call.disk)

\* open, a write or os.replace raises OSError: the call ends, the disk stays
SaveRaises ==
  /\ call.fn = "_save_state" /\ call.pc \in {"open", "dump", "replace"}
  /\ SaveStep("raised", call.disk)

\* the process ends in the middle of the call: the disk stays
SaveCrash ==
  /\ call.fn = "_save_state" /\ call.pc \in {"open", "dump", "replace"}
  /\ SaveStep("crashed", call.disk)

NextSave ==
  \/ SaveOpen
  \/ SaveWrite
  \/ SaveClose
  \/ SaveReplace
  \/ SaveRaises
  \/ SaveCrash

SpecSave == InitSave /\ [][NextSave]_vars

\* =================================================================== claims
\* A poll step of monitor_job has just been taken for a fetch that returned a
\* JSON object from which a marker can be derived
PolledObject ==
  /\ ev.kind = "poll"
  /\ ev.res.ok
  /\ ev.res.j.t = "dict"
  /\ ~MarkerRaisesBot(ev.res.j)

EvMarker == _make_update_marker(ev.res.j)

\* Every entry of the cycle's snapshot with a non-empty address was fetched for
AllActiveFetched ==
  \A i \in DOMAIN jobState : Active(jobState[i][2]) => jobState[i][1] \in fetched

\* C1: across polls interleaved with commands of any subscriber, a subscriber
\* gets exactly one Change Event per change of the marker between two
\* successive polls of their subscription: a poll that fetches the marker the
\* previous poll fetched sends none, and one that fetches another marker sends
\* one.  (Polls of the same registration, both run to their end.)
C1_OncePerChange ==
  (/\ PolledObject
   /\ ev.raised = "none"
   /\ ev.prevPoll.seen /\ ev.prevPoll.valid /\ ev.prevPoll.res.ok)
  => ((ev.emit = "change") <=> (EvMarker # _make_update_marker(ev.prevPoll.res.j)))

\* C2: a poll that fetches the payload the previous poll of the subscription
\* fetched, with no command having changed the stored record in between,
\* sends no Change Event and leaves the stored last_marker as it was.
C2_Idempotent ==
  (/\ PolledObject
   /\ ev.raised = "none"
   /\ ev.prevPoll.seen /\ ev.prevPoll.valid /\ ev.prevPoll.quiet
   /\ ev.prevPoll.res = ev.res)
  => /\ ev.emit = "none"
     /\ chgCnt[ev.u] = 0
     /\ ev.u \in Keys(file)
     /\ _get_user_cfg(file, ev.u).last_marker = ev.lastMarker
     /\ _get_user_cfg(file, ev.u).last_marker = EvMarker

C2_Witness ==
  /\ PolledObject
  /\ ev.raised = "none"
  /\ ev.prevPoll.seen /\ ev.prevPoll.valid /\ ev.prevPoll.quiet
  /\ ev.prevPoll.res = ev.res
  /\ ev.res.j = P2
  /\ cycles = 2

\* C3: a poll whose fetch returns a JSON object with a marker other than the
\* snapshot's last_marker, and whose store write succeeds, sends exactly one
\* Change Event to that subscriber and stores the payload's marker and
\* updateTimestamp.
C3_ChangeDetected ==
  (/\ PolledObject
   /\ EvMarker # ev.lastMarker
   /\ ev.raised # "store")
  => /\ ev.emit = "change"
     /\ chgCnt[ev.u] = 1
     /\ jobMsg = [to |-> ev.u, kind |-> "change", body |-> EvMarker]
     /\ ev.u \in Keys(file)
     /\ _get_user_cfg(file, ev.u).last_marker = EvMarker
     /\ _get_user_cfg(file, ev.u).last_updateTimestamp = UtOf(ev.res.j).v

C3_Witness ==
  /\ PolledObject
  /\ ev.lastMarker = <<"updateTimestamp:", "1">>
  /\ EvMarker = <<"updateTimestamp:", "2">>
  /\ ev.emit = "change"
  /\ _get_user_cfg(file, ev.u).last_updateTimestamp = <<"2", " ">>

\* A poll step has just been taken for a fetch that raised, and the step ran
\* to its end (the store write, if any, succeeded)
PolledFailure ==
  /\ ev.kind = "poll"
  /\ ~ev.res.ok
  /\ ev.raised = "none"

\* C4: a failed poll sends an Error Event exactly when its error string
\* differs from the snapshot's last_error, and writes nothing when it does
\* not; so, the stored record being left alone by commands in between, a
\* failure with the error of the previous poll's failure sends nothing, and a
\* failure after a failure with another error or after a successful poll
\* sends one Error Event.
C4_ErrorOncePerStreak ==
  [][(PolledFailure' /\ ev' # ev)
     => /\ (ev'.emit = "error") <=> (ev'.res.err # ev'.lastError)
        /\ (ev'.emit = "error") <=> (errCnt'[ev'.u] = 1)
        /\ ev'.emit # "change"
        /\ (ev'.res.err = ev'.lastError) => (file' = file)
        /\ (ev'.emit = "error")
             => /\ jobMsg' = [to |-> ev'.u, kind |-> "error", body |-> ev'.res.err]
                /\ _get_user_cfg(file', ev'.u).last_error = ev'.res.err
        /\ (ev'.prevPoll.seen /\ ev'.prevPoll.valid /\ ev'.prevPoll.quiet)
             => ((ev'.emit = "none") <=> (ev'.prevPoll.res = ev'.res))
    ]_vars

\* the second of two successive failures with one error string: no event
C4_Witness ==
  /\ PolledFailure
  /\ ev.prevPoll.seen /\ ev.prevPoll.valid /\ ev.prevPoll.quiet
  /\ ev.prevPoll.res = ev.res
  /\ ev.emit = "none"
  /\ errCnt[ev.u] = 0

\* C5: in a cycle in which a fetch failed and no store write, malformed
\* payload or delivery raised, every active subscriber of the snapshot is
\* fetched for, and a subscriber polled after the failure whose marker
\* changed is sent its Change Event.
C5_FetchFailureIsolated ==
  /\ (jobPc = "idle" /\ failed # {} /\ aborted \notin {"store", "payload", "send"})
       => AllActiveFetched
  /\ (PolledObject /\ failed \ {ev.u} # {} /\ EvMarker # ev.lastMarker
      /\ ev.raised # "store")
       => (ev.emit = "change" /\ chgCnt[ev.u] = 1)

\* the first subscriber's fetch failed, the second got its Change Event
C5_Witness ==
  /\ jobPc = "idle"
  /\ aborted = "none"
  /\ Len(jobState) = 2
  /\ failed = {jobState[1][1]}
  /\ errCnt[jobState[1][1]] = 1
  /\ chgCnt[jobState[2][1]] = 1
  /\ fetched = Users

\* C6: a cycle in which a fetched payload was malformed or a store write
\* failed still fetches for every active subscriber of its snapshot.
C6_MalformedIsolated ==
  (jobPc = "idle" /\ undelivered = {}) => AllActiveFetched

\* C7: a cycle in which the delivery of a notification failed still fetches
\* for every active subscriber of its snapshot.
C7_DeliveryFailureContained ==
  (jobPc = "idle" /\ undelivered # {}) => AllActiveFetched

\* C8: in one cycle a subscriber is sent at most one Change Event, at most
\* one Error Event, and not both.
C8_AtMostOneEvent ==
  \A u \in Users : chgCnt[u] + errCnt[u] <= 1

\* one cycle sent a Change Event to one subscriber and an Error Event to the other
C8_Witness ==
  /\ jobPc = "idle"
  /\ \E u, v \in Users : chgCnt[u] = 1 /\ errCnt[v] = 1 /\ chgCnt[v] = 0 /\ errCnt[u] = 0

\* C9: once no cycle is in progress, a subscriber who unsubscribed (and has
\* not registered again) has no record in the store.
C9_UnsubscribedStaysGone ==
  jobPc = "idle" => \A u \in gone : u \notin Keys(file)

C11_ErrorOnlyAfterFailure ==
  \A u \in Users :
    (u \in Keys(file) /\ prev[u].seen /\ prev[u].valid /\ prev[u].res.ok)
      => _get_user_cfg(file, u).last_error = EmptyStr

\* A poll step has just been taken for a fetch that returned, and the step ran
\* to its end
PolledSuccess ==
  /\ ev.kind = "poll"
  /\ ev.res.ok
  /\ ev.raised = "none"

\* C12: a successful poll whose marker is "unknown" while the snapshot's
\* last_marker is "unknown" sends no Change Event; a successful poll in which
\* exactly one of the two is "unknown" sends one.
C12_UnknownMarkerRule ==
  PolledSuccess
    => /\ (EvMarker = UnknownMarker /\ ev.lastMarker = UnknownMarker)
            => (ev.emit = "none" /\ chgCnt[ev.u] = 0)
       /\ ((EvMarker = UnknownMarker) # (ev.lastMarker = UnknownMarker))
            => (ev.emit = "change" /\ chgCnt[ev.u] = 1)

\* an unknown marker fetched for a subscription whose last_marker is unknown
C12_Witness ==
  /\ PolledSuccess
  /\ ev.res.j = PNoTs
  /\ ev.lastMarker = UnknownMarker
  /\ ev.emit = "none"
  /\ _get_user_cfg(file, ev.u).last_marker = UnknownMarker

\* A call of one of the two marker functions has returned
MarkerReturned ==
  /\ call.fn \in {"_make_update_marker", "make_update_marker"}
  /\ ~call.raised

\* The updateTimestamp field of an object, Absent when it has none
TsField(j) ==
  IF j.t = "dict" /\ "updateTimestamp" \in DOMAIN j.v THEN j.v.updateTimestamp ELSE Absent

\* The marker function named by call, applied to another payload
SameFnRaises(j) ==
  IF call.fn = "make_update_marker" THEN MarkerRaisesClient(j) ELSE MarkerRaisesBot(j)

\* C13 as stated: two payloads with identical updateTimestamp strings have
\* the same marker, whatever their other fields.
C13_SameTimestampAnyValue ==
  (MarkerReturned /\ TsField(call.j).t = "str")
    => \A j2 \in MarkerPayloads :
         (TsField(j2) = TsField(call.j) /\ ~SameFnRaises(j2))
           => _make_update_marker(j2) = call.ret

\* C13 amended: for a payload whose updateTimestamp is a string with a
\* character other than white space, the marker is "updateTimestamp:" and the
\* trimmed string, whatever the other fields; so two such payloads with
\* identical updateTimestamp have the same marker.
C13_SameTimestampSameMarker ==
  (/\ call.fn \in {"_make_update_marker", "make_update_marker"}
   /\ TsField(call.j).t = "str"
   /\ Strip(TsField(call.j).v) # <<>>)
    => /\ ~call.raised
       /\ call.ret = <<"updateTimestamp:">> \o Strip(TsField(call.j).v)
       /\ \A j2 \in MarkerPayloads :
            TsField(j2) = TsField(call.j)
              => (~SameFnRaises(j2) /\ _make_update_marker(j2) = call.ret)

\* a timestamp marker derived from a payload that also has a fallback field
C13_Witness ==
  /\ MarkerReturned
  /\ TsField(call.j) = JStr(<<"1", " ">>)
  /\ "fact" \in DOMAIN call.j.v
  /\ call.j.v.fact = JDict([update |-> JStr(<<"x">>)])
  /\ call.ret = <<"updateTimestamp:", "1">>

\* The fallback value the function reads: fact.update, or fact.updateFact when
\* that is missing or empty; Absent when fact is no object or has neither
FallbackField(j) ==
  IF j.t = "dict" /\ "fact" \in DOMAIN j.v /\ j.v.fact.t = "dict"
       /\ Truthy(PyOr(DGet(j.v.fact, "update"), DGet(j.v.fact, "updateFact")))
  THEN PyOr(DGet(j.v.fact, "update"), DGet(j.v.fact, "updateFact"))
  ELSE Absent

\* The updateTimestamp of the object is missing, null or a blank string
TsEmpty(j) ==
  /\ j.t = "dict"
  /\ TsField(j).t \in {"absent", "null", "str"}
  /\ TsField(j).t = "str" => Strip(TsField(j).v) = <<>>

\* C14 as stated: with an empty updateTimestamp and a non-empty fallback
\* string in fact, the marker is never "unknown" and two payloads with the same
\* fallback value have the same marker.
C14_FallbackNeverUnknown ==
  (MarkerReturned /\ TsEmpty(call.j) /\ FallbackField(call.j).t = "str")
    => /\ call.ret # UnknownMarker
       /\ \A j2 \in MarkerPayloads :
            (TsEmpty(j2) /\ FallbackField(j2) = FallbackField(call.j))
              => _make_update_marker(j2) = call.ret

\* C14 amended: with an empty updateTimestamp and a fallback (fact.update, or
\* fact.updateFact when that is empty) that is a string with a character other
\* than white space, the marker is "fact.update:" and the trimmed fallback,
\* whatever the other fields; it is not "unknown".
C14_FallbackAlone ==
  (/\ call.fn \in {"_make_update_marker", "make_update_marker"}
   /\ TsEmpty(call.j)
   /\ FallbackField(call.j).t = "str"
   /\ Strip(FallbackField(call.j).v) # <<>>)
    => /\ ~call.raised
       /\ call.ret = <<"fact.update:">> \o Strip(FallbackField(call.j).v)
       /\ call.ret # UnknownMarker
       /\ \A j2 \in MarkerPayloads :
            (TsEmpty(j2) /\ FallbackField(j2) = FallbackField(call.j))
              => (~SameFnRaises(j2) /\ _make_update_marker(j2) = call.ret)

\* the fallback read from fact.updateFact under a blank updateTimestamp
C14_Witness ==
  /\ MarkerReturned
  /\ TsField(call.j) = JStr(<<" ">>)
  /\ FallbackField(call.j) = JStr(<<"x">>)
  /\ "updateFact" \in DOMAIN call.j.v.fact.v
  /\ "result" \in DOMAIN call.j.v
  /\ call.ret = <<"fact.update:", "x">>

\* The payload has the documented shape around the house: data is missing,
\* null or an object, and the house's entry, if there is one, is null or an
\* object whose sub_type_reason is missing, null or a list
ShapedForHouse(j, house) ==
  /\ j.t = "dict"
  /\ "data" \in DOMAIN j.v => j.v.data.t \in {"null", "dict"}
  /\ ("data" \in DOMAIN j.v /\ j.v.data.t = "dict" /\ house \in DOMAIN j.v.data.v)
       => /\ j.v.data.v[house].t \in {"null", "dict"}
          /\ (j.v.data.v[house].t = "dict"
              /\ "sub_type_reason" \in DOMAIN j.v.data.v[house].v)
               => j.v.data.v[house].v.sub_type_reason.t \in {"null", "list"}

\* The list of queue codes the payload gives for the house; empty when the
\* house or the list is missing
ListedReasons(j, house) ==
  IF /\ "data" \in DOMAIN j.v
     /\ j.v.data.t = "dict"
     /\ house \in DOMAIN j.v.data.v
     /\ j.v.data.v[house].t = "dict"
     /\ "sub_type_reason" \in DOMAIN j.v.data.v[house].v
     /\ j.v.data.v[house].v.sub_type_reason.t = "list"
  THEN j.v.data.v[house].v.sub_type_reason.v
  ELSE <<>>

\* C15: get_house_queue returns None for a house absent from data and for a
\* house with an empty or missing sub_type_reason list, and otherwise the
\* first entry of the list; it does not raise.
C15_QueueForHouse ==
  (call.fn = "get_house_queue" /\ ShapedForHouse(call.j, call.house))
    => /\ ~call.raised
       /\ call.ret = IF ListedReasons(call.j, call.house) = <<>> THEN JNull
                     ELSE ListedReasons(call.j, call.house)[1]

\* the first of two queue codes
C15_Witness ==
  /\ call.fn = "get_house_queue"
  /\ ShapedForHouse(call.j, call.house)
  /\ ListedReasons(call.j, call.house) = <<Q2, Q1>>
  /\ call.ret = Q2

\* The statuses the payload gives for today and the queue: the map at
\* fact.data[fact.today][queue], read from the payload's own keys
TodayStatuses(j, queue) ==
  j.v.fact.v.data.v[PyStr(j.v.fact.v.today)].v[queue].v

\* The payload has data for today and the queue: fact.today is set, and
\* fact.data has a non-empty map of hours for that day and queue
HasTodayData(j, queue) ==
  /\ j.t = "dict" /\ "fact" \in DOMAIN j.v /\ j.v.fact.t = "dict"
  /\ "today" \in DOMAIN j.v.fact.v /\ Truthy(j.v.fact.v.today)
  /\ "data" \in DOMAIN j.v.fact.v
  /\ PyStr(j.v.fact.v.today) \in DOMAIN j.v.fact.v.data.v
  /\ queue \in DOMAIN j.v.fact.v.data.v[PyStr(j.v.fact.v.today)].v
  /\ DOMAIN TodayStatuses(j, queue) # {}

\* C16: over a payload with today's data for the queue the summary has
\* exactly 24 lines, the line at position h being that of hour h: its status
\* is the one the payload gives for hour h, or "—" when it gives none, and it
\* is shown translated through preset.time_type, or raw when the table has no
\* entry for it.
C16_TodayForecast ==
  (call.fn = "summarize_fact_for_today" /\ HasTodayData(call.j, call.queue))
    => /\ ~call.raised
       /\ call.ret # NoFactData
       /\ DOMAIN call.ret = 1..24
       /\ \A h \in 1..24 :
            /\ call.ret[h].code =
                 IF Str(h) \in DOMAIN TodayStatuses(call.j, call.queue)
                 THEN TodayStatuses(call.j, call.queue)[Str(h)]
                 ELSE Dash
            /\ call.ret[h].human =
                 IF "preset" \in DOMAIN call.j.v
                      /\ call.ret[h].code.v \in DOMAIN call.j.v.preset.v.time_type.v
                 THEN call.j.v.preset.v.time_type.v[call.ret[h].code.v]
                 ELSE call.ret[h].code
            /\ call.ret[h].slot \in {JStr(SynthSlot(h)), JStr(<<"4", "-", "5">>)}
            /\ (call.ret[h].slot = JStr(<<"4", "-", "5">>)) => h = 5

\* hour 13 has no status: "—" there, the neighbours keep theirs, hour 5 is
\* translated and hour 7 is shown raw
C16_Witness ==
  /\ call.fn = "summarize_fact_for_today"
  /\ HasTodayData(call.j, call.queue)
  /\ ~call.raised
  /\ call.ret[13].code = Dash
  /\ call.ret[12].code = On /\ call.ret[14].code = On
  /\ call.ret[5] = [slot |-> JStr(<<"4", "-", "5">>), code |-> Off, human |-> JStr(<<"n", "p">>)]
  /\ call.ret[7] = [slot |-> JStr(<<"0", "7", "?">>), code |-> Raw, human |-> Raw]
  /\ call.ret[24].slot = JStr(<<"2", "4", "?">>)

\* C17: for a payload with a non-empty updateTimestamp T (without surrounding
\* white space), the subscriber's house listed with a queue, and today's data
\* for that queue, the marker is "updateTimestamp:" + T and the text of the
\* Change Event has the watched address, the queue code and the 24 hourly
\* entries with their translated statuses; no other key is required.
C17_EndToEnd ==
  (/\ call.fn = "change_text"
   /\ TsField(call.j).t = "str"
   /\ TsField(call.j).v # <<>> /\ Strip(TsField(call.j).v) = TsField(call.j).v
   /\ ListedReasons(call.j, call.house) # <<>>
   /\ HasTodayData(call.j, ListedReasons(call.j, call.house)[1].v))
    => /\ call.marker = <<"updateTimestamp:">> \o TsField(call.j).v
       /\ call.ret.head.kind = "house"
       /\ call.ret.head.street_ui = call.street_ui
       /\ call.ret.head.house = call.house
       /\ call.ret.queue = ListedReasons(call.j, call.house)[1]
       /\ call.ret.fact # NoFactData
       /\ call.ret.fact[5].code = Off
       /\ "preset" \in DOMAIN call.j.v => call.ret.fact[5].human = JStr(<<"n", "p">>)

\* C18: a poll whose fetch got a JSON body that is not an object takes the
\* failure path: the iteration ends without an exception, having stored the
\* error as last_error (sending an Error Event if it is a new one), and sends
\* no Change Event.
C18_NonObjectIsFetchFailure ==
  (ev.kind = "poll" /\ ev.res.j = PNotDict)
    => /\ ~ev.res.ok
       /\ ev.raised = "none"
       /\ ev.emit # "change"
       /\ _get_user_cfg(file, ev.u).last_error # EmptyStr

\* C19: every stored subscription has a house with at least one digit and at
\* most 16 characters.
C19_StoredHouseValid ==
  \A i \in DOMAIN file :
    /\ \E k \in DOMAIN file[i][2].house : IsDigit(file[i][2].house[k])
    /\ Len(file[i][2].house) <= 16

\* C20: a write of the file by monitor_job (a step that changes the file and
\* is not a step of a command handler) neither adds nor removes a
\* subscription and leaves every subscriber's street and house as they were
\* in the file.
C20_CycleWritesOnlyMonitoringFields ==
  [][(file' # file /\ cmdPc' = cmdPc /\ commands' = commands)
       => /\ Keys(file') = Keys(file)
          /\ \A u \in Keys(file) :
               /\ _get_user_cfg(file', u).street = _get_user_cfg(file, u).street
               /\ _get_user_cfg(file', u).street_ui = _get_user_cfg(file, u).street_ui
               /\ _get_user_cfg(file', u).house = _get_user_cfg(file, u).house
    ]_vars

\* The poll recorded in p fetched an object with a marker other than the
\* last_marker of its snapshot, and the store write that would have recorded
\* the marker raised
MarkerWriteFailed(p) ==
  /\ p.seen /\ ~p.valid
  /\ p.res.ok /\ p.res.j.t = "dict" /\ ~MarkerRaisesBot(p.res.j)
  /\ _make_update_marker(p.res.j) # p.kept

\* C21: a store write of a new last_marker that fails leaves the file as it
\* was, sends nothing and ends the cycle; the next poll of the subscription
\* (no command having changed its stored record in between) compares what it
\* fetched with the last_marker the file kept, not with the marker that was
\* not stored, so if it fetches the same payload again and its write
\* succeeds, it sends the Change Event and stores the marker.
C21_UnpersistedMarkerRetried ==
  [][/\ (PolledObject' /\ ev' # ev /\ ev'.raised = "store")
          => /\ file' = file
             /\ jobPc' = "idle"
             /\ ev'.emit = "none" /\ chgCnt'[ev'.u] = 0
             /\ prev'[ev'.u].kept = ev'.lastMarker
     /\ (PolledObject' /\ ev' # ev /\ ev'.raised # "store"
         /\ MarkerWriteFailed(ev'.prevPoll) /\ ev'.prevPoll.quiet)
          => /\ ev'.lastMarker = ev'.prevPoll.kept
             /\ (ev'.emit = "change")
                  <=> (_make_update_marker(ev'.res.j) # ev'.prevPoll.kept)
             /\ (ev'.res = ev'.prevPoll.res)
                  => /\ ev'.emit = "change"
                     /\ chgCnt'[ev'.u] = 1
                     /\ _get_user_cfg(file', ev'.u).last_marker
                          = _make_update_marker(ev'.res.j)
    ]_vars

\* the write of marker 2 over marker 1 failed; the next cycle fetched the same
\* payload, compared it with marker 1 and sent the Change Event
C21_Witness ==
  /\ PolledObject
  /\ ev.raised = "none"
  /\ MarkerWriteFailed(ev.prevPoll) /\ ev.prevPoll.quiet
  /\ ev.prevPoll.kept = <<"updateTimestamp:", "1">>
  /\ ev.res = ev.prevPoll.res
  /\ EvMarker = <<"updateTimestamp:", "2">>
  /\ ev.emit = "change"

\* C22: at every point of a store write, finished, raised or cut short by
\* the end of the process, STATE_FILE holds the complete previous text or the
\* complete new text, so a load returns the previous state or the new one:
\* the previous one until os.replace, the new one once the call is done.
C22_NoTornState ==
  call.fn = "_save_state"
    => /\ call.disk.main \in {call.old, OnDisk(Dump(call.state))}
       /\ file \in {_load_state(call.old), call.state}
       /\ call.pc \in {"open", "dump", "replace", "raised", "crashed"}
            => (call.disk.main = call.old /\ file = _load_state(call.old))
       /\ call.pc = "done"
            => (call.disk.main = OnDisk(Dump(call.state)) /\ file = call.state)

\* the process ended after json.dump had written a part of a two-user state:
\* the part is in the tmp file, a load returns the previous one-user state
C22_Witness ==
  /\ call.fn = "_save_state"
  /\ call.pc = "crashed"
  /\ Len(call.state) = 2
  /\ call.disk.tmp.exists
  /\ Len(call.disk.tmp.text) = 2
  /\ ~Parses(call.disk.tmp.text)
  /\ Len(file) = 1
  /\ file # <<call.state[1]>>

\* The subscribers of a state whose street and house are both non-empty
ActiveUsers(users) == {users[i][1] : i \in {k \in DOMAIN users : Active(users[k][2])}}

\* A step of monitor_job that handles the outcome of a fetch
FetchStep ==
  /\ jobPc = "fetch"
  /\ cmdPc' = cmdPc /\ commands' = commands
  /\ ev'.kind = "poll"

\* C23: a cycle fetches for each active subscription of its snapshot exactly
\* once: no subscription is fetched for twice, and when the cycle is over all
\* active ones have been fetched for; a subscription with an empty street or
\* house is never fetched for and is sent no event.
C23_ActiveFetchedOnce ==
  [][/\ FetchStep => (ev'.u \notin fetched /\ fetched' = fetched \cup {ev'.u})
     /\ fetched' \subseteq ActiveUsers(jobState')
     /\ \A u \in Keys(jobState') \ ActiveUsers(jobState') :
          chgCnt'[u] = 0 /\ errCnt'[u] = 0
     /\ (jobPc' = "idle" /\ cycles' > 0) => fetched' = ActiveUsers(jobState')
    ]_vars

C25_CycleTerminates ==
  /\ (jobPc # "idle") ~> (jobPc = "idle")
  /\ [][/\ FetchStep => ev'.u \notin fetched
        /\ (FetchStep /\ ~ev'.res.ok)
             => /\ ev'.u \in failed' /\ ev'.u \in fetched'
                /\ ev'.emit # "change"
                /\ ev'.raised = "none"
                     => (jobPc' = "send" \/ jobIdx' = NextActive(jobState', jobIdx + 1))
                /\ ev'.u \in ActiveUsers(jobState')
                /\ ev'.saved => ev'.u \in ActiveUsers(file')
       ]_vars

\* a cycle over two subscriptions has ended: the first fetch failed with the
\* error already stored, the second subscription was fetched for after it
C25_Witness ==
  /\ jobPc = "idle"
  /\ cycles = 2
  /\ aborted = "none"
  /\ Len(jobState) = 2
  /\ failed = {jobState[1][1]}
  /\ errCnt[jobState[1][1]] = 0
  /\ fetched = Users

\* The value at key k of x, Absent when x is no object or has no such key
Sub(x, k) == IF x.t = "dict" /\ k \in DOMAIN x.v THEN x.v[k] ELSE Absent
\* absent or null
Missing(x) == x.t \in {"absent", "null"}

\* fact.data[day][queue] of the payload, the day being fact.today as a string
QueueEntry(j, queue) ==
  Sub(Sub(Sub(Sub(j, "fact"), "data"),
          IF Missing(Sub(Sub(j, "fact"), "today")) THEN <<>>
          ELSE PyStr(Sub(Sub(j, "fact"), "today"))),
      queue)

\* C26 as stated: over the payload objects in which any of the keys is absent
\* or null, the three functions do not raise, and a missing key of a function
\* (updateTimestamp; data, the house's entry, sub_type_reason; fact,
\* fact.today, fact.data, the day's entry, the queue's entry, preset,
\* time_zone, time_type) gives the "unknown" marker, no queue, and the "no
\* data" result.
C26_MissingKeyGivesDefault ==
  (call.fn # "input" /\ call.j \in SparsePayloads)
    => /\ ~call.raised
       /\ (call.fn \in {"_make_update_marker", "make_update_marker"}
           /\ Missing(Sub(call.j, "updateTimestamp")))
            => call.ret = UnknownMarker
       /\ (call.fn = "get_house_queue"
           /\ Missing(Sub(Sub(Sub(call.j, "data"), call.house), "sub_type_reason")))
            => call.ret = JNull
       /\ (call.fn = "summarize_fact_for_today"
           /\ \/ Missing(QueueEntry(call.j, call.queue))
              \/ Missing(Sub(Sub(call.j, "preset"), "time_zone"))
              \/ Missing(Sub(Sub(call.j, "preset"), "time_type")))
            => call.ret = NoFactData

\* C26 amended: over the payload objects in which any of updateTimestamp, data, the
\* house's entry, sub_type_reason, fact, fact.today, fact.data, the day's
\* entry, the queue's entry, preset, time_zone and time_type is absent or
\* null, the three functions do not raise; the marker is "unknown" when
\* updateTimestamp and the fallback in fact are missing; the queue is None
\* when data, the house's entry or sub_type_reason is missing; the forecast
\* is the "no data" result when fact, fact.today, fact.data, the day's entry
\* or the queue's entry is missing, and otherwise has its 24 lines, with the
\* synthesized label where time_zone is missing and the raw status where
\* time_type is missing.
C26_MissingKeysDegrade ==
  (call.fn # "input" /\ call.j \in SparsePayloads)
    => /\ ~call.raised
       /\ call.fn \in {"_make_update_marker", "make_update_marker"}
            => /\ (Missing(Sub(call.j, "updateTimestamp"))
                    /\ FallbackField(call.j) = Absent)
                     => call.ret = UnknownMarker
               /\ ~Missing(Sub(call.j, "updateTimestamp"))
                     => call.ret # UnknownMarker
       /\ call.fn = "get_house_queue"
            => (call.ret = JNull)
                 <=> Missing(Sub(Sub(Sub(call.j, "data"), call.house),
                                 "sub_type_reason"))
       /\ call.fn = "summarize_fact_for_today"
            => /\ (call.ret = NoFactData) <=> Missing(QueueEntry(call.j, call.queue))
               /\ call.ret # NoFactData
                    => /\ DOMAIN call.ret = 1..24
                       /\ \A h \in 1..24 :
                            /\ Missing(Sub(Sub(call.j, "preset"), "time_zone"))
                                 => call.ret[h].slot = JStr(SynthSlot(h))
                            /\ Missing(Sub(Sub(call.j, "preset"), "time_type"))
                                 => call.ret[h].human = call.ret[h].code

\* the forecast of a payload that has today's hours for the queue and a null
\* preset, with neither updateTimestamp nor data
C26_Witness ==
  /\ call.fn = "summarize_fact_for_today"
  /\ call.j \in SparsePayloads
  /\ Sub(call.j, "preset") = JNull
  /\ Missing(Sub(call.j, "updateTimestamp"))
  /\ Missing(Sub(call.j, "data"))
  /\ ~call.raised
  /\ call.ret # NoFactData
  /\ call.ret[5] = [slot |-> JStr(<<"0", "5", "?">>), code |-> Off, human |-> Off]
  /\ call.ret[13].code = Dash

\* C27: a step of a registration (its first save, and the save after its
\* confirmation fetch) leaves the stored record of every other subscriber as
\* it was, that is as monitor_job last wrote it, also when a cycle ran while
\* the command was awaiting its fetch.
C27_RegistrationWritesOwnRecord ==
  [][(cmdPc' # cmdPc)
       => \A v \in Users \ {cmdUser, cmdUser'} :
            /\ (v \in Keys(file')) = (v \in Keys(file))
            /\ _get_user_cfg(file', v) = _get_user_cfg(file, v)
    ]_vars

\* C28: a poll whose fetch failed leaves the stored last_marker and
\* last_updateTimestamp of the subscription as they were in the file; and a
\* successful poll that follows a failed one and fetches the marker that was
\* stored before the failure sends no Change Event.
C28_FailureKeepsMarker ==
  [][/\ (FetchStep /\ ~ev'.res.ok)
          => /\ _get_user_cfg(file', ev'.u).last_marker
                  = _get_user_cfg(file, ev'.u).last_marker
             /\ _get_user_cfg(file', ev'.u).last_updateTimestamp
                  = _get_user_cfg(file, ev'.u).last_updateTimestamp
     /\ (FetchStep /\ PolledObject' /\ ev'.raised = "none"
         /\ ev'.prevPoll.seen /\ ev'.prevPoll.valid /\ ~ev'.prevPoll.res.ok
         /\ _make_update_marker(ev'.res.j) = ev'.prevPoll.kept)
          => (ev'.emit = "none" /\ chgCnt'[ev'.u] = 0)
    ]_vars

\* C29: in the /set dialogue a registration is written to the store (/stop,
\* the only other writer among the handlers, removes a key) only by the house step, with
\* a valid house and a captured street of at least 3 characters (the second
\* save belongs to the same call of set_house); a street or house that is
\* refused leaves the conversation in its step and the store alone; and once
\* set_cancel has been called the conversation is over, TMP_STREET is cleared
\* and the store is as it was.
C29_DialogueWritesOnlyOnHouse ==
  /\ [][(file' # file /\ Keys(file) \subseteq Keys(file')) =>
          \E u \in Users :
            /\ conv[u].state = "SET_HOUSE"
            /\ cmdPc = "idle" =>
                 /\ Len(conv[u].tmp) >= MinStreetLen
                 /\ _get_user_cfg(file', u).street = conv[u].tmp
                 /\ _valid_house(_get_user_cfg(file', u).house)
            /\ cmdPc # "idle" => cmdUser = u]_vars
  /\ [][\A u \in Users, t \in StreetTexts, ok \in BOOLEAN :
          (set_street(u, t, ok) /\ Len(_norm_street(t)) < MinStreetLen)
            => (conv'[u] = conv[u] /\ file' = file)]_vars
  /\ [][\A u \in Users, t \in DialogHouseTexts, ok \in BOOLEAN :
          (conv_set_house(u, t, ok) /\ ~_valid_house(_norm_house(t)))
            => (conv'[u] = conv[u] /\ file' = file)]_vars
  /\ [](call.fn = "set_cancel" => conv[call.u] = [state |-> "END", tmp |-> EmptyStr])
  /\ [][(call'.fn = "set_cancel" /\ call' # call) => file' = file]_vars

====
